---- MODULE Spec2Model ----
(***************************************************************************)
(* The m68k architecture binding of the emulation engine                   *)
(* (qemu/target/m68k/unicorn.c): register access over the live CPU state   *)
(* and over a context snapshot, the program-counter write side effect,     *)
(* reset, the direct program-counter accessors and release.                *)
(*                                                                         *)
(* Values are little-endian byte sequences, so that a width is the length  *)
(* of a sequence: a uint32_t is four bytes, a uint64_t eight, and a        *)
(* conversion between them drops or adds the high bytes.                   *)
(* Sequences are indexed from 1: entry i of a C array is entry i + 1 here. *)
(***************************************************************************)
EXTENDS Integers, Sequences, FiniteSets, TLC

VARIABLES
    live,          \* CPUM68KState of uc->cpu: aregs, dregs, pc, sr
    ctx,           \* CPUM68KState held in a uc_context (ctx->data)
    quit_request,  \* uc->quit_request
    tlb,           \* cpu->neg.tlb: per MMU mode, g_free calls on d[i].iotlb and f[i].table
    alive,         \* FALSE once m68k_release has run: the CPU no longer exists
    last           \* the most recent call: arguments, caller memory, result, state before

vars == << live, ctx, quit_request, tlb, alive, last >>

----------------------------------------------------------------------------
(* Register identifiers (enum uc_m68k_reg) and sizes.                      *)

UC_M68K_REG_INVALID == 0
UC_M68K_REG_A0 == 1
UC_M68K_REG_A7 == UC_M68K_REG_A0 + 7
UC_M68K_REG_D0 == 9
UC_M68K_REG_D7 == UC_M68K_REG_D0 + 7
UC_M68K_REG_SR == 17
UC_M68K_REG_PC == 18
UC_M68K_REG_ENDING == 19

NB_MMU_MODES == 2

\* sizeof(uint32_t), in bytes
SizeofU32 == 4

Zero32 == << 0, 0, 0, 0 >>
Ones32 == << 255, 255, 255, 255 >>
\* what the caller's buffer holds before a read
Poison == << 170, 170, 170, 170 >>

\* uint64_t -> uint32_t: the low four bytes
Trunc32(a) == SubSeq(a, 1, SizeofU32)
\* uint32_t -> uint64_t: zero extension
Ext64(w) == w \o << 0, 0, 0, 0 >>

----------------------------------------------------------------------------
(* Collaborators outside this file.                                        *)

\* CHECK_REG_TYPE(uint32_t), on the declared size *size: the declared size
\* must be the register's width; otherwise the accessor returns
\* invalid-argument before touching anything.  The result holds the code and
\* *size after the check.
CHECK_REG_TYPE(size) ==
    IF size = SizeofU32 THEN [ret |-> "UC_ERR_OK", size |-> size]
    ELSE [ret |-> "UC_ERR_ARG", size |-> size]

\* The canonical form of a status-register value: the condition-code bits
\* (the low five) are not kept in sr, nor are the bits above the low word.
SrCanon(v) == << v[1] - (v[1] % 32), v[2], 0, 0 >>

\* cpu_m68k_set_sr(env, v)
cpu_m68k_set_sr(env, v) == [env EXCEPT !.sr = SrCanon(v)]

----------------------------------------------------------------------------
(* The typed accessor.                                                     *)

\* reg_read with the data-register case copied from the address-register
\* case and the array left unchanged
reg_read_dregs_from_aregs(env, regid, value, size) ==
    LET c == CHECK_REG_TYPE(size)
        failed == [value |-> value, ret |-> c.ret, size |-> c.size]
    IN
    IF regid = UC_M68K_REG_PC \/ regid = UC_M68K_REG_SR
            \/ (regid >= UC_M68K_REG_A0 /\ regid <= UC_M68K_REG_D7) THEN
        IF c.ret # "UC_ERR_OK" THEN failed
        ELSE [value |-> IF regid = UC_M68K_REG_PC THEN env.pc
                        ELSE IF regid = UC_M68K_REG_SR THEN env.sr
                        ELSE IF regid <= UC_M68K_REG_A7
                             THEN env.aregs[regid - UC_M68K_REG_A0]
                        ELSE env.aregs[regid - UC_M68K_REG_D0],
              ret |-> "UC_ERR_OK", size |-> c.size]
    ELSE [value |-> value, ret |-> "UC_ERR_ARG", size |-> size]

\* reg_read(env, regid, value, size): value is the caller's buffer before the
\* call; the result holds the buffer and *size after it and the returned code.
reg_read(env, regid, value, size) ==
    LET c == CHECK_REG_TYPE(size)
        failed == [value |-> value, ret |-> c.ret, size |-> c.size]
    IN
    IF regid >= UC_M68K_REG_A0 /\ regid <= UC_M68K_REG_A7 THEN
        IF c.ret # "UC_ERR_OK" THEN failed
        ELSE [value |-> env.aregs[regid - UC_M68K_REG_A0],
              ret |-> "UC_ERR_OK", size |-> c.size]
    ELSE IF regid >= UC_M68K_REG_D0 /\ regid <= UC_M68K_REG_D7 THEN
        IF c.ret # "UC_ERR_OK" THEN failed
        ELSE [value |-> env.dregs[regid - UC_M68K_REG_D0],
              ret |-> "UC_ERR_OK", size |-> c.size]
    ELSE IF regid = UC_M68K_REG_PC THEN
        IF c.ret # "UC_ERR_OK" THEN failed
        ELSE [value |-> env.pc, ret |-> "UC_ERR_OK", size |-> c.size]
    ELSE IF regid = UC_M68K_REG_SR THEN
        IF c.ret # "UC_ERR_OK" THEN failed
        ELSE [value |-> env.sr, ret |-> "UC_ERR_OK", size |-> c.size]
    ELSE [value |-> value, ret |-> "UC_ERR_ARG", size |-> size]

\* reg_write(env, regid, value, size, setpc): the result holds the state,
\* *size and *setpc after the call and the returned code.
reg_write(env, regid, value, size, setpc) ==
    LET c == CHECK_REG_TYPE(size)
        failed == [env |-> env, ret |-> c.ret, size |-> c.size, setpc |-> setpc]
    IN
    IF regid >= UC_M68K_REG_A0 /\ regid <= UC_M68K_REG_A7 THEN
        IF c.ret # "UC_ERR_OK" THEN failed
        ELSE [env |-> [env EXCEPT !.aregs[regid - UC_M68K_REG_A0] = value],
              ret |-> "UC_ERR_OK", size |-> c.size, setpc |-> setpc]
    ELSE IF regid >= UC_M68K_REG_D0 /\ regid <= UC_M68K_REG_D7 THEN
        IF c.ret # "UC_ERR_OK" THEN failed
        ELSE [env |-> [env EXCEPT !.dregs[regid - UC_M68K_REG_D0] = value],
              ret |-> "UC_ERR_OK", size |-> c.size, setpc |-> setpc]
    ELSE IF regid = UC_M68K_REG_PC THEN
        IF c.ret # "UC_ERR_OK" THEN failed
        ELSE [env |-> [env EXCEPT !.pc = value],
              ret |-> "UC_ERR_OK", size |-> c.size, setpc |-> TRUE]
    ELSE IF regid = UC_M68K_REG_SR THEN
        IF c.ret # "UC_ERR_OK" THEN failed
        ELSE [env |-> cpu_m68k_set_sr(env, value),
              ret |-> "UC_ERR_OK", size |-> c.size, setpc |-> setpc]
    ELSE [env |-> env, ret |-> "UC_ERR_ARG", size |-> size, setpc |-> setpc]

----------------------------------------------------------------------------
(* The batch dispatcher.                                                   *)

\* The loop of reg_read_batch from entry i on; vals are the caller's buffers
\* and sizes their declared sizes (the caller passes a sizes array).
RECURSIVE reg_read_loop(_, _, _, _, _)
reg_read_loop(i, env, regs, vals, sizes) ==
    IF i > Len(regs) THEN [vals |-> vals, sizes |-> sizes, err |-> "UC_ERR_OK"]
    ELSE LET r == reg_read(env, regs[i], vals[i], sizes[i])
             vals1 == [vals EXCEPT ![i] = r.value]
             sizes1 == [sizes EXCEPT ![i] = r.size]
         IN IF r.ret # "UC_ERR_OK"
            THEN [vals |-> vals1, sizes |-> sizes1, err |-> r.ret]
            ELSE reg_read_loop(i + 1, env, regs, vals1, sizes1)

\* reg_read_batch that does not hand the declared sizes on to reg_read
reg_read_batch_ignores_sizes(env, regs, vals, sizes) ==
    reg_read_loop(1, env, regs, vals, [i \in 1 .. Len(sizes) |-> SizeofU32])

reg_read_batch(env, regs, vals, sizes) ==
    reg_read_loop(1, env, regs, vals, sizes)

\* the loop of reg_write_batch without the early return: a failing entry is
\* remembered and the loop goes on
RECURSIVE reg_write_loop_no_stop(_, _, _, _, _, _)
reg_write_loop_no_stop(i, env, regs, vals, sizes, setpc) ==
    IF i > Len(regs)
    THEN [env |-> env, sizes |-> sizes, err |-> "UC_ERR_OK", setpc |-> setpc]
    ELSE LET w == reg_write(env, regs[i], vals[i], sizes[i], setpc)
             rest == reg_write_loop_no_stop(i + 1, w.env, regs, vals, sizes, w.setpc)
         IN IF w.ret # "UC_ERR_OK" THEN [rest EXCEPT !.err = w.ret] ELSE rest

\* The loop of reg_write_batch from entry i on.
RECURSIVE reg_write_loop(_, _, _, _, _, _)
reg_write_loop(i, env, regs, vals, sizes, setpc) ==
    IF i > Len(regs)
    THEN [env |-> env, sizes |-> sizes, err |-> "UC_ERR_OK", setpc |-> setpc]
    ELSE LET w == reg_write(env, regs[i], vals[i], sizes[i], setpc)
             sizes1 == [sizes EXCEPT ![i] = w.size]
         IN IF w.ret # "UC_ERR_OK"
            THEN [env |-> w.env, sizes |-> sizes1, err |-> w.ret, setpc |-> w.setpc]
            ELSE reg_write_loop(i + 1, w.env, regs, vals, sizes1, w.setpc)

\* reg_write_batch that drops the error of a failing entry
reg_write_batch_drops_err(env, regs, vals, sizes, setpc) ==
    [reg_write_loop(1, env, regs, vals, sizes, setpc) EXCEPT !.err = "UC_ERR_OK"]

reg_write_batch(env, regs, vals, sizes, setpc) ==
    reg_write_loop(1, env, regs, vals, sizes, setpc)

-----
(* State after construction.                                               *)

ZeroEnv ==
    [aregs |-> [i \in 0 .. 7 |-> Zero32],
     dregs |-> [i \in 0 .. 7 |-> Zero32],
     pc |-> Zero32,
     sr |-> Zero32]

Pre == [live |-> live, ctx |-> ctx, quit_request |-> quit_request, tlb |-> tlb]

NoCall ==
    [op |-> "none", regs |-> << >>, vals |-> << >>, sizes |-> << >>,
     ret |-> "UC_ERR_OK", out |-> << >>, osizes |-> << >>, breaks |-> 0,
     addr |-> << >>, log |-> << >>, pre |-> [live |-> ZeroEnv, ctx |-> ZeroEnv,
                             quit_request |-> FALSE,
                             tlb |-> [m \in 0 .. NB_MMU_MODES - 1 |->
                                        [iotlb |-> 0, table |-> 0]]]]

Init ==
    /\ live = ZeroEnv
    /\ ctx = ZeroEnv
    /\ quit_request = FALSE
    /\ tlb = [m \in 0 .. NB_MMU_MODES - 1 |-> [iotlb |-> 0, table |-> 0]]
    /\ alive = TRUE
    /\ last = NoCall

----------------------------------------------------------------------------
(* Engine-facing entry points.  Each takes the caller's arrays regs, vals  *)
(* and sizes, of one length (count).                                       *)

\* The record of a call: the caller's arrays before it (regs, vals, sizes)
\* and after it (out, osizes), the returned code, the break_translation_loop
\* calls it made, and the state it started from.
Call(op, regs, vals, sizes, ret, out, osizes, breaks) ==
    [op |-> op, regs |-> regs, vals |-> vals, sizes |-> sizes, ret |-> ret,
     out |-> out, osizes |-> osizes, breaks |-> breaks, addr |-> << >>,
     log |-> << >>, pre |-> Pre]

\* m68k_reg_read(uc, regs, vals, sizes, count)
m68k_reg_read(regs, vals, sizes) ==
    /\ alive
    /\ LET r == reg_read_batch(live, regs, vals, sizes) IN
       last' = Call("m68k_reg_read", regs, vals, sizes, r.err, r.vals, r.sizes, 0)
    /\ UNCHANGED << live, ctx, quit_request, tlb, alive >>

\* m68k_reg_write's tail without the test of setpc: every successful call
\* quits and breaks the translation loop
reg_write_finish_always_signals(w, quit) ==
    IF w.err # "UC_ERR_OK" THEN [ret |-> w.err, quit |-> quit, breaks |-> 0]
    ELSE [ret |-> "UC_ERR_OK", quit |-> TRUE, breaks |-> 1]

\* What m68k_reg_write does after reg_write_batch returned w: the state of
\* the quit flag and the number of break_translation_loop calls.
reg_write_finish(w, quit) ==
    IF w.err # "UC_ERR_OK" THEN [ret |-> w.err, quit |-> quit, breaks |-> 0]
    ELSE IF w.setpc THEN [ret |-> "UC_ERR_OK", quit |-> TRUE, breaks |-> 1]
    ELSE [ret |-> "UC_ERR_OK", quit |-> quit, breaks |-> 0]

\* m68k_reg_write(uc, regs, vals, sizes, count)
m68k_reg_write(regs, vals, sizes) ==
    /\ alive
    /\ LET w == reg_write_batch(live, regs, vals, sizes, FALSE)
           f == reg_write_finish(w, quit_request)
       IN /\ live' = w.env
          /\ quit_request' = f.quit
          /\ last' = Call("m68k_reg_write", regs, vals, sizes, f.ret, vals, w.sizes,
                        f.breaks)
    /\ UNCHANGED << ctx, tlb, alive >>

\* m68k_context_reg_read(ctx, regs, vals, sizes, count)
m68k_context_reg_read(regs, vals, sizes) ==
    /\ LET r == reg_read_batch(ctx, regs, vals, sizes) IN
       last' = Call("m68k_context_reg_read", regs, vals, sizes, r.err, r.vals, r.sizes, 0)
    /\ UNCHANGED << live, ctx, quit_request, tlb, alive >>

\* m68k_context_reg_write with m68k_reg_write's tail: a program-counter
\* write quits and breaks the translation loop
m68k_context_reg_write_signals(regs, vals, sizes) ==
    /\ LET w == reg_write_batch(ctx, regs, vals, sizes, FALSE)
           f == reg_write_finish(w, quit_request)
       IN /\ ctx' = w.env
          /\ quit_request' = f.quit
          /\ last' = Call("m68k_context_reg_write", regs, vals, sizes, f.ret, vals,
                          w.sizes, f.breaks)
    /\ UNCHANGED << live, tlb, alive >>

\* m68k_context_reg_write(ctx, regs, vals, sizes, count)
m68k_context_reg_write(regs, vals, sizes) ==
    /\ LET w == reg_write_batch(ctx, regs, vals, sizes, FALSE) IN
       /\ ctx' = w.env
       /\ last' = Call("m68k_context_reg_write", regs, vals, sizes, w.err, vals,
                     w.sizes, 0)
    /\ UNCHANGED << live, quit_request, tlb, alive >>

\* m68k_reg_reset without the memset of dregs
m68k_reg_reset_skips_dregs ==
    /\ alive
    /\ live' = [live EXCEPT !.aregs = [i \in 0 .. 7 |-> Zero32], !.pc = Zero32]
    /\ last' = Call("m68k_reg_reset", << >>, << >>, << >>, "UC_ERR_OK", << >>, << >>, 0)
    /\ UNCHANGED << ctx, quit_request, tlb, alive >>

\* m68k_reg_reset(uc)
m68k_reg_reset ==
    /\ alive
    /\ live' = [live EXCEPT !.aregs = [i \in 0 .. 7 |-> Zero32],
                            !.dregs = [i \in 0 .. 7 |-> Zero32],
                            !.pc = Zero32]
    /\ last' = Call("m68k_reg_reset", << >>, << >>, << >>, "UC_ERR_OK", << >>, << >>, 0)
    /\ UNCHANGED << ctx, quit_request, tlb, alive >>

\* m68k_set_pc that quits as a register-interface write of the pc does
m68k_set_pc_quits(address) ==
    /\ alive
    /\ live' = [live EXCEPT !.pc = Trunc32(address)]
    /\ quit_request' = TRUE
    /\ last' = [Call("m68k_set_pc", << >>, << >>, << >>, "UC_ERR_OK", << >>, << >>, 1)
                    EXCEPT !.addr = address]
    /\ UNCHANGED << ctx, tlb, alive >>

\* m68k_set_pc(uc, address): address is a uint64_t, the pc field a uint32_t
m68k_set_pc(address) ==
    /\ alive
    /\ live' = [live EXCEPT !.pc = Trunc32(address)]
    /\ last' = [Call("m68k_set_pc", << >>, << >>, << >>, "UC_ERR_OK", << >>, << >>, 0)
                    EXCEPT !.addr = address]
    /\ UNCHANGED << ctx, quit_request, tlb, alive >>

\* m68k_get_pc(uc): the value returned is in last.addr
m68k_get_pc ==
    /\ alive
    /\ last' = [Call("m68k_get_pc", << >>, << >>, << >>, "UC_ERR_OK", << >>, << >>, 0)
                    EXCEPT !.addr = Ext64(live.pc)]
    /\ UNCHANGED << live, ctx, quit_request, tlb, alive >>

\* release_common(ctx): the engine-generic teardown; it frees none of the
\* per-mode tables.
release_common(log) == Append(log, [ev |-> "release_common", mode |-> 0])

\* The loop of m68k_release from mode i on: the ordered g_free calls.
RECURSIVE release_loop(_, _)
release_loop(i, log) ==
    IF i >= NB_MMU_MODES THEN log
    ELSE release_loop(i + 1,
            log \o << [ev |-> "g_free iotlb", mode |-> i],
                      [ev |-> "g_free table", mode |-> i] >>)

\* m68k_release with the generic teardown after the frees
release_calls_frees_first == release_common(release_loop(0, << >>))

\* The calls m68k_release makes, in order.
release_calls == release_loop(0, release_common(<< >>))

Count(log, e) == Cardinality({k \in 1 .. Len(log) : log[k] = e})

\* m68k_release(ctx)
m68k_release ==
    /\ alive
    /\ alive' = FALSE
    /\ tlb' = [m \in 0 .. NB_MMU_MODES - 1 |->
                 [iotlb |-> tlb[m].iotlb
                              + Count(release_calls, [ev |-> "g_free iotlb", mode |-> m]),
                  table |-> tlb[m].table
                              + Count(release_calls, [ev |-> "g_free table", mode |-> m])]]
    /\ last' = [Call("m68k_release", << >>, << >>, << >>, "UC_ERR_OK", << >>, << >>, 0)
                    EXCEPT !.log = release_calls]
    /\ UNCHANGED << live, ctx, quit_request >>

----------------------------------------------------------------------------
(* Inputs.                                                                 *)

\* the longest batch of SpecBatch
MaxBatch == 2

\* Register identifiers of the calls on live state: the two on either side
\* of the boundary between the ranges, the two named registers, and the two
\* nearest identifiers outside every range.
RegIds ==
    { UC_M68K_REG_INVALID, UC_M68K_REG_A7, UC_M68K_REG_D0,
      UC_M68K_REG_SR, UC_M68K_REG_PC, UC_M68K_REG_ENDING }

\* Register identifiers of the calls on a context snapshot, which the same
\* reg_read and reg_write serve: the outer ends of the two ranges instead.
CtxRegIds ==
    { UC_M68K_REG_INVALID, UC_M68K_REG_A0, UC_M68K_REG_D7,
      UC_M68K_REG_SR, UC_M68K_REG_PC, UC_M68K_REG_ENDING }

\* declared sizes: smaller than, equal to and larger than a register
Sizes == { 2, SizeofU32, 8 }

Vals == { Zero32, Ones32 }

\* (value, declared size) pairs of a write: every value at the right size,
\* one value at every size
WriteArgs ==
    { << v, SizeofU32 >> : v \in Vals } \cup { << Ones32, s >> : s \in Sizes }

Addrs == { Ones32 \o << 1, 0, 0, 0 >>, Zero32 \o << 1, 0, 0, 0 >> }

\* Single-register calls, as uc_reg_read and uc_reg_write make them.
Next ==
    \/ \E r \in RegIds, s \in Sizes : m68k_reg_read(<< r >>, << Poison >>, << s >>)
    \/ \E r \in RegIds, a \in WriteArgs : m68k_reg_write(<< r >>, << a[1] >>, << a[2] >>)
    \/ \E r \in CtxRegIds, s \in Sizes : m68k_context_reg_read(<< r >>, << Poison >>, << s >>)
    \/ \E r \in CtxRegIds, a \in WriteArgs :
            m68k_context_reg_write(<< r >>, << a[1] >>, << a[2] >>)
    \/ m68k_reg_reset
    \/ \E a \in Addrs : m68k_set_pc(a)
    \/ m68k_get_pc
    \/ m68k_release

Spec == Init /\ [][Next]_vars

\* Batches: every sequence of at most MaxBatch entries.
Batches(E) == UNION { [1 .. n -> E] : n \in 0 .. MaxBatch }

Column(b, k) == [i \in 1 .. Len(b) |-> b[i][k]]

\* << regid, value, declared size >> entries of a write batch: two values for
\* one register, a second register, an unknown identifier, a wrong size
WriteEntries ==
    { << UC_M68K_REG_PC, Ones32, SizeofU32 >>,
      << UC_M68K_REG_PC, Zero32, SizeofU32 >>,
      << UC_M68K_REG_A0, Ones32, SizeofU32 >>,
      << UC_M68K_REG_INVALID, Ones32, SizeofU32 >>,
      << UC_M68K_REG_D7, Ones32, 8 >> }

ReadEntries ==
    { << UC_M68K_REG_PC, Poison, SizeofU32 >>,
      << UC_M68K_REG_ENDING, Poison, SizeofU32 >> }

NextBatch ==
    \/ \E b \in Batches(ReadEntries) :
            m68k_reg_read(Column(b, 1), Column(b, 2), Column(b, 3))
    \/ \E b \in Batches(WriteEntries) :
            m68k_reg_write(Column(b, 1), Column(b, 2), Column(b, 3))
    \/ \E b \in Batches(ReadEntries) :
            m68k_context_reg_read(Column(b, 1), Column(b, 2), Column(b, 3))
    \/ \E b \in Batches(WriteEntries) :
            m68k_context_reg_write(Column(b, 1), Column(b, 2), Column(b, 3))

SpecBatch == Init /\ [][NextBatch]_vars

----------------------------------------------------------------------------
(* The register directory, as the interface documents it, and what a call  *)
(* record says about the call.                                             *)

DefinedRegs ==
    (UC_M68K_REG_A0 .. UC_M68K_REG_A7) \cup (UC_M68K_REG_D0 .. UC_M68K_REG_D7)
        \cup { UC_M68K_REG_PC, UC_M68K_REG_SR }

ReadOps == { "m68k_reg_read", "m68k_context_reg_read" }
WriteOps == { "m68k_reg_write", "m68k_context_reg_write" }
LiveOps == { "m68k_reg_read", "m68k_reg_write" }

\* the state a call works on, before and after it
TargetBefore(c) == IF c.op \in LiveOps THEN c.pre.live ELSE c.pre.ctx
TargetAfter(c) == IF c.op \in LiveOps THEN live ELSE ctx

\* what a 4-byte read of register r returns in state env
ReadOf(env, r) == reg_read(env, r, Poison, SizeofU32).value

\* what a register holds after a 4-byte write of v
Stored(r, v) == IF r = UC_M68K_REG_SR THEN SrCanon(v) ELSE v

ValidEntry(c, i) == c.regs[i] \in DefinedRegs /\ c.sizes[i] = SizeofU32

\* the first invalid entry of the batch, or one past its end
FirstInvalid(c) ==
    IF \A i \in 1 .. Len(c.regs) : ValidEntry(c, i) THEN Len(c.regs) + 1
    ELSE CHOOSE k \in 1 .. Len(c.regs) :
            ~ValidEntry(c, k) /\ \A i \in 1 .. k - 1 : ValidEntry(c, i)

\* the entries that wrote the program counter
PcWrites(c) == { i \in 1 .. FirstInvalid(c) - 1 : c.regs[i] = UC_M68K_REG_PC }

NothingChanged ==
    /\ live = last.pre.live
    /\ ctx = last.pre.ctx
    /\ quit_request = last.pre.quit_request
    /\ tlb = last.pre.tlb
    /\ last.breaks = 0

----------------------------------------------------------------------------
(* Claims.                                                                 *)

\* C1: whenever an m68k_reg_write call has stored a new value into the live pc
\* field, also by an entry of a batch whose later entry fails, then when the
\* call returns quit_request is true and break_translation_loop was called.
C1_PcWriteLeavesPendingRestart ==
    (last.op = "m68k_reg_write" /\ PcWrites(last) # {}
        /\ live.pc # last.pre.live.pc)
        => (quit_request /\ last.breaks >= 1)

\* C2 as stated: the number of break_translation_loop calls an m68k_reg_write
\* call makes equals the number of its entries that wrote UC_M68K_REG_PC.
C2_OneSignalPerPcWrite ==
    last.op = "m68k_reg_write" => last.breaks = Cardinality(PcWrites(last))

\* C2 as amended: an m68k_reg_write call signals the translation loop at most
\* once, however many entries wrote the program counter: exactly once when it
\* returns OK and at least one entry wrote UC_M68K_REG_PC, otherwise not.
C2_OneSignalPerCall ==
    last.op = "m68k_reg_write"
        => last.breaks = (IF last.ret = "UC_ERR_OK" /\ PcWrites(last) # {}
                          THEN 1 ELSE 0)

C2_Witness ==
    /\ last.op = "m68k_reg_write"
    /\ last.ret = "UC_ERR_OK"
    /\ Cardinality(PcWrites(last)) = 2
    /\ live.pc # last.pre.live.pc
    /\ last.breaks = 1

\* C3: an m68k_context_reg_write call, whatever it writes and returns, leaves
\* quit_request and the live CPU state as they were and does not call
\* break_translation_loop.
C3_ContextWriteIsInert ==
    last.op = "m68k_context_reg_write"
        => /\ quit_request = last.pre.quit_request
           /\ last.breaks = 0
           /\ live = last.pre.live
           /\ tlb = last.pre.tlb

C3_Witness ==
    /\ last.op = "m68k_context_reg_write"
    /\ last.ret = "UC_ERR_OK"
    /\ PcWrites(last) # {}
    /\ ctx.pc # last.pre.ctx.pc
    /\ ctx.pc # live.pc
    /\ ~quit_request

\* C4: a read or write of a defined register whose declared size is not 4
\* returns UC_ERR_ARG and leaves the CPU state, the caller's buffer and the
\* declared size unchanged.
C4_WidthEnforced ==
    (/\ last.op \in ReadOps \cup WriteOps
     /\ Len(last.regs) >= 1
     /\ last.regs[1] \in DefinedRegs
     /\ last.sizes[1] # SizeofU32)
        => /\ last.ret = "UC_ERR_ARG"
           /\ NothingChanged
           /\ last.out = last.vals
           /\ last.osizes = last.sizes

C4_Witness ==
    /\ last.op = "m68k_reg_read"
    /\ last.regs = << UC_M68K_REG_PC >>
    /\ last.sizes = << 8 >>
    /\ last.pre.live.pc = Ones32
    /\ last.ret = "UC_ERR_ARG"
    /\ last.out = << Poison >>

\* C5: a read or write of an identifier that is not a defined register, on
\* live state or on a context snapshot, returns UC_ERR_ARG and changes no
\* register field, not the caller's buffer and not the quit flag.
C5_UnknownIdentifier ==
    (/\ last.op \in ReadOps \cup WriteOps
     /\ Len(last.regs) >= 1
     /\ last.regs[1] \notin DefinedRegs)
        => /\ last.ret = "UC_ERR_ARG"
           /\ NothingChanged
           /\ last.out = last.vals

C5_Witness ==
    /\ last.op = "m68k_context_reg_write"
    /\ last.regs = << UC_M68K_REG_ENDING >>
    /\ last.sizes = << SizeofU32 >>
    /\ last.vals = << Ones32 >>
    /\ last.ret = "UC_ERR_ARG"
    /\ ctx.dregs[7] = Ones32

\* C6: after a batch of writes whose first invalid entry is entry k, every
\* register holds what the last entry before k that names it stored, or what
\* it held before the call; the call returns the failure of entry k, or OK
\* when no entry is invalid.
C6_BatchFailFast ==
    last.op \in WriteOps
        => LET k == FirstInvalid(last)
               writers(r) == { i \in 1 .. k - 1 : last.regs[i] = r }
               latest(r) == CHOOSE i \in writers(r) : \A j \in writers(r) : j <= i
           IN /\ \A r \in DefinedRegs :
                    ReadOf(TargetAfter(last), r) =
                        IF writers(r) # {} THEN Stored(r, last.vals[latest(r)])
                        ELSE ReadOf(TargetBefore(last), r)
              /\ last.ret = (IF k <= Len(last.regs) THEN "UC_ERR_ARG"
                             ELSE "UC_ERR_OK")

C6_Witness ==
    /\ last.op = "m68k_reg_write"
    /\ Len(last.regs) = MaxBatch
    /\ FirstInvalid(last) = MaxBatch
    /\ last.ret = "UC_ERR_ARG"
    /\ live.aregs[0] = Ones32
    /\ last.pre.live.aregs[0] = Zero32

\* C7: a successful 4-byte write of V followed at once by a 4-byte read of
\* the same register of the same state returns V, and for the status
\* register canon(V), where canon(canon(V)) = canon(V).
C7_RoundTrip ==
    [][ (/\ last.op \in WriteOps
         /\ Len(last.regs) = 1
         /\ last.ret = "UC_ERR_OK"
         /\ last'.op \in ReadOps
         /\ (last'.op \in LiveOps) = (last.op \in LiveOps)
         /\ last'.regs = last.regs
         /\ last'.sizes = << SizeofU32 >>)
        => /\ last'.ret = "UC_ERR_OK"
           /\ last'.out = << Stored(last.regs[1], last.vals[1]) >>
           /\ SrCanon(SrCanon(last.vals[1])) = SrCanon(last.vals[1]) ]_vars

C7_Witness ==
    /\ last.op = "m68k_context_reg_read"
    /\ last.regs = << UC_M68K_REG_SR >>
    /\ last.ret = "UC_ERR_OK"
    /\ last.out = << SrCanon(Ones32) >>
    /\ SrCanon(Ones32) # Ones32
    /\ live.sr = Zero32

\* C8: after m68k_reg_reset every address register, every data register and
\* the program counter read as zero; the status register, the per-mode
\* translation caches and the quit flag are as before the reset.
C8_ResetSemantics ==
    last.op = "m68k_reg_reset"
        => /\ \A r \in DefinedRegs \ { UC_M68K_REG_SR } : ReadOf(live, r) = Zero32
           /\ live.sr = last.pre.live.sr
           /\ tlb = last.pre.tlb
           /\ quit_request = last.pre.quit_request

C8_Witness ==
    /\ last.op = "m68k_reg_reset"
    /\ last.pre.live.aregs[7] = Ones32
    /\ last.pre.live.dregs[0] = Ones32
    /\ last.pre.live.pc = Ones32
    /\ live.sr = SrCanon(Ones32)
    /\ quit_request

\* C9: an m68k_release call first runs release_common, then frees, for every
\* MMU mode, the mode's iotlb table and its fast table exactly once each.
C9_ReleaseOrder ==
    last.op = "m68k_release"
        => /\ Len(last.log) = 1 + 2 * NB_MMU_MODES
           /\ last.log[1].ev = "release_common"
           /\ \A m \in 0 .. NB_MMU_MODES - 1 :
                /\ Count(last.log, [ev |-> "g_free iotlb", mode |-> m]) = 1
                /\ Count(last.log, [ev |-> "g_free table", mode |-> m]) = 1
                /\ tlb[m] = [iotlb |-> 1, table |-> 1]
           /\ Count(last.log, [ev |-> "release_common", mode |-> 0]) = 1

C9_Witness ==
    /\ last.op = "m68k_release"
    /\ ~alive
    /\ last.pre.tlb[NB_MMU_MODES - 1] = [iotlb |-> 0, table |-> 0]
    /\ tlb[NB_MMU_MODES - 1].table = 1

\* C10: m68k_set_pc stores the low 32 bits of the address into the live pc
\* field and changes nothing else: it neither sets quit_request nor calls
\* break_translation_loop; m68k_get_pc returns the pc field.
C10_DirectSetPc ==
    /\ last.op = "m68k_set_pc"
        => /\ live = [last.pre.live EXCEPT
                        !.pc = << last.addr[1], last.addr[2], last.addr[3],
                                  last.addr[4] >>]
           /\ ctx = last.pre.ctx
           /\ quit_request = last.pre.quit_request
           /\ tlb = last.pre.tlb
           /\ last.breaks = 0
    /\ last.op = "m68k_get_pc"
        => /\ last.addr = live.pc \o << 0, 0, 0, 0 >>
           /\ NothingChanged

C10_Witness ==
    /\ last.op = "m68k_set_pc"
    /\ last.addr = Ones32 \o << 1, 0, 0, 0 >>
    /\ last.pre.live.pc = Zero32
    /\ live.pc = Ones32
    /\ ~quit_request

====
